---- MODULE Spec2Model ----
(***************************************************************************)
(* friendly-number: significant-digit arithmetic, scaling, scale           *)
(* generation and the options handed to Intl.NumberFormat.  The library    *)
(* is a set of pure functions over JavaScript                              *)
(* Numbers; the model keeps Numbers as IEEE-754 binary64 values (sign,     *)
(* 53-bit significand, binary exponent) so that every product, quotient    *)
(* and sum is rounded exactly as the program rounds it.  Significands are  *)
(* big integers held as little-endian sequences of 15-bit limbs.           *)
(* Math.pow(10, k) and Math.log10 are taken as correctly rounded;          *)
(* subnormals, overflow to Infinity and the sign of zero are outside the   *)
(* range the model explores.                                               *)
(***************************************************************************)
EXTENDS Integers, Sequences, FiniteSets, TLC

\* ---------- big non-negative integers ----------
Base == 32768
LimbBits == 15

Limb(a, i) == IF i <= Len(a) THEN a[i] ELSE 0
Max2(x, y) == IF x >= y THEN x ELSE y
Min2(x, y) == IF x <= y THEN x ELSE y

RECURSIVE Trim(_)
Trim(a) == IF Len(a) > 0 /\ a[Len(a)] = 0 THEN Trim(SubSeq(a, 1, Len(a) - 1)) ELSE a

RECURSIVE Pow2(_)
Pow2(k) == IF k = 0 THEN 1 ELSE 2 * Pow2(k - 1)

BigOfInt(n) == Trim(<<n % Base, (n \div Base) % Base, n \div (Base * Base)>>)

BigAdd(a, b) ==
  LET RECURSIVE AddC(_, _)
      AddC(i, c) ==
        IF i > Max2(Len(a), Len(b))
        THEN IF c = 0 THEN <<>> ELSE <<c>>
        ELSE LET s == Limb(a, i) + Limb(b, i) + c
             IN <<s % Base>> \o AddC(i + 1, s \div Base)
  IN AddC(1, 0)

BigSub(a, b) ==
  LET RECURSIVE SubC(_, _)
      SubC(i, c) ==
        IF i > Len(a) THEN <<>>
        ELSE LET s == a[i] - Limb(b, i) - c
             IN IF s < 0 THEN <<s + Base>> \o SubC(i + 1, 1)
                         ELSE <<s>> \o SubC(i + 1, 0)
  IN Trim(SubC(1, 0))

BigCmp(a, b) ==
  LET RECURSIVE CmpFrom(_)
      CmpFrom(i) ==
        IF i = 0 THEN 0
        ELSE IF a[i] < b[i] THEN -1 ELSE IF a[i] > b[i] THEN 1 ELSE CmpFrom(i - 1)
  IN IF Len(a) < Len(b) THEN -1 ELSE IF Len(a) > Len(b) THEN 1 ELSE CmpFrom(Len(a))

BigMulSmall(a, s) ==
  LET RECURSIVE MulSC(_, _)
      MulSC(i, c) ==
        IF i > Len(a) THEN (IF c = 0 THEN <<>> ELSE <<c>>)
        ELSE LET p == a[i] * s + c
             IN <<p % Base>> \o MulSC(i + 1, p \div Base)
  IN IF s = 0 THEN <<>> ELSE MulSC(1, 0)

ShiftLimbs(a, k) == IF Len(a) = 0 THEN a ELSE [i \in 1..k |-> 0] \o a

BigMul(a, b) ==
  LET RECURSIVE MulAcc(_)
      MulAcc(j) ==
        IF j > Len(b) THEN <<>>
        ELSE BigAdd(ShiftLimbs(BigMulSmall(a, b[j]), j - 1), MulAcc(j + 1))
  IN MulAcc(1)

BigShl(a, k) == ShiftLimbs(BigMulSmall(a, Pow2(k % LimbBits)), k \div LimbBits)

BigBitLen(a) ==
  LET RECURSIVE BitLenLimb(_)
      BitLenLimb(x) == IF x = 0 THEN 0 ELSE 1 + BitLenLimb(x \div 2)
  IN IF Len(a) = 0 THEN 0 ELSE (Len(a) - 1) * LimbBits + BitLenLimb(a[Len(a)])

\* floor(a / 2^k)
BigShr(a, k) ==
  LET ShrLimbs(q, d, u) ==
        IF Len(a) <= q THEN <<>>
        ELSE Trim([i \in 1..(Len(a) - q) |->
                     (a[i + q] \div d) + (Limb(a, i + q + 1) % d) * u])
  IN ShrLimbs(k \div LimbBits, Pow2(k % LimbBits), Pow2(LimbBits - (k % LimbBits)))

\* a mod 2^k # 0
BigLowBits(a, k) ==
  LET RECURSIVE AnyLow(_)
      AnyLow(n) == IF n = 0 THEN FALSE ELSE a[n] # 0 \/ AnyLow(n - 1)
  IN AnyLow(Min2(k \div LimbBits, Len(a)))
       \/ (Limb(a, (k \div LimbBits) + 1) % Pow2(k % LimbBits)) # 0

BigBit(a, k) == (Limb(a, (k \div LimbBits) + 1) \div Pow2(k % LimbBits)) % 2

TrimQuotient(qr) == <<Trim(qr[1]), qr[2]>>

\* <<floor(a / b), a mod b>>, b # 0
BigDivMod(a, b) ==
  LET \* the largest d < Base with d * b <= r, found bit by bit (w is the weight tried next)
      RECURSIVE DigitSearch(_, _, _)
      DigitSearch(r, d, w) ==
        IF w = 0 THEN d
        ELSE IF BigCmp(BigMulSmall(b, d + w), r) <= 0 THEN DigitSearch(r, d + w, w \div 2)
        ELSE DigitSearch(r, d, w \div 2)
      \* long division, limb i of a downwards; r is the running remainder
      RECURSIVE DivLimbs(_, _, _)
      RECURSIVE DivDigit(_, _, _, _)
      DivLimbs(i, r, q) ==
        IF i = 0 \/ Len(r) < 0 \/ Len(q) < 0 THEN <<q, r>>
        ELSE DivDigit(i, Trim(<<a[i]>> \o r), q,
                      IF BigCmp(Trim(<<a[i]>> \o r), b) < 0 THEN 0
                      ELSE DigitSearch(Trim(<<a[i]>> \o r), 0, Base \div 2))
      \* limb i of the quotient is d; r1 is the remainder with limb i of a brought down
      DivDigit(i, r1, q, d) ==
        DivLimbs(i - 1, BigSub(r1, BigMulSmall(b, d)), <<d>> \o q)
  IN TrimQuotient(DivLimbs(Len(a), <<>>, <<>>))

RECURSIVE BigPow10(_)
BigPow10(k) == IF k = 0 THEN <<1>> ELSE BigMulSmall(BigPow10(k - 1), 10)


\* ---------- IEEE-754 binary64 values ----------
MantBits == 53
NaN == [k |-> "nan", s |-> 0, m |-> <<>>, e |-> 0]
Inf(s) == [k |-> "inf", s |-> s, m |-> <<>>, e |-> 0]
Zero == [k |-> "num", s |-> 0, m |-> <<>>, e |-> 0]
IsNaN(a) == a.k = "nan"
IsInf(a) == a.k = "inf"
IsZero(a) == a.k = "num" /\ a.m = <<>>
isFinite(a) == a.k = "num"
Xor(s, t) == (s + t) % 2

\* nearest double (ties to even) to (-1)^s * (M + sticky) * 2^E, M > 0
\* the significand q, of MantBits bits or one more after a carry, at exponent e
Pack(s, q, e) ==
  IF BigBitLen(q) > MantBits THEN [k |-> "num", s |-> s, m |-> BigShr(q, 1), e |-> e + 1]
  ELSE [k |-> "num", s |-> s, m |-> q, e |-> e]
\* M + sticky is above the midpoint of its two neighbours sh bits up, or at it with the lower one odd
RoundsUp(M, sh, sticky) ==
  BigBit(M, sh - 1) = 1 /\ (sticky \/ BigLowBits(M, sh - 1) \/ BigBit(M, sh) = 1)
RoundAt(s, M, E, sticky, sh) ==
  Pack(s, IF RoundsUp(M, sh, sticky) THEN BigAdd(BigShr(M, sh), <<1>>) ELSE BigShr(M, sh), E + sh)
Widen(s, M, E, sh) == [k |-> "num", s |-> s, m |-> BigShl(M, sh), e |-> E - sh]
RoundToDouble(s, M, E, sticky) ==
  IF BigBitLen(M) <= MantBits THEN Widen(s, M, E, MantBits - BigBitLen(M))
  ELSE RoundAt(s, M, E, sticky, BigBitLen(M) - MantBits)

\* nearest double to (-1)^s * (num / den) * 2^E, num > 0, den > 0
RoundQuotient(s, qr, E) == RoundToDouble(s, qr[1], E, qr[2] # <<>>)
RatShifted(s, num, den, E, K) == RoundQuotient(s, BigDivMod(BigShl(num, K), den), E - K)
RatToDouble(s, num, den, E) ==
  RatShifted(s, num, den, E, Max2(0, MantBits + 3 + BigBitLen(den) - BigBitLen(num)))

\* the double written as the decimal literal (-1)^s * d * 10^q
Dec(s, d, q) ==
  IF d = 0 THEN Zero
  ELSE IF q >= 0 THEN RoundToDouble(s, BigMul(BigOfInt(d), BigPow10(q)), 0, FALSE)
  ELSE RatToDouble(s, BigOfInt(d), BigPow10(-q), 0)
Num(n) == Dec(IF n < 0 THEN 1 ELSE 0, IF n < 0 THEN -n ELSE n, 0)

FNeg(a) == IF a.k = "nan" \/ IsZero(a) THEN a ELSE [a EXCEPT !.s = 1 - a.s]
FAbs(a) == [a EXCEPT !.s = 0]

FMul(a, b) ==
  IF IsNaN(a) \/ IsNaN(b) THEN NaN
  ELSE IF IsInf(a) \/ IsInf(b)
       THEN IF IsZero(a) \/ IsZero(b) THEN NaN ELSE Inf(Xor(a.s, b.s))
  ELSE IF IsZero(a) \/ IsZero(b) THEN Zero
  ELSE RoundToDouble(Xor(a.s, b.s), BigMul(a.m, b.m), a.e + b.e, FALSE)

FDiv(a, b) ==
  IF IsNaN(a) \/ IsNaN(b) THEN NaN
  ELSE IF IsInf(a) THEN (IF IsInf(b) THEN NaN ELSE Inf(Xor(a.s, b.s)))
  ELSE IF IsInf(b) THEN Zero
  ELSE IF IsZero(b) THEN (IF IsZero(a) THEN NaN ELSE Inf(Xor(a.s, b.s)))
  ELSE IF IsZero(a) THEN Zero
  ELSE RatToDouble(Xor(a.s, b.s), a.m, b.m, a.e - b.e)

\* (-1)^sa * A * 2^E + (-1)^sb * B * 2^E, c the order of A and B
AddOrdered(sa, sb, A, B, E, c) ==
  IF sa # sb /\ c = 0 THEN Zero
  ELSE RoundToDouble(IF sa = sb \/ c > 0 THEN sa ELSE sb,
                     IF sa = sb THEN BigAdd(A, B) ELSE IF c > 0 THEN BigSub(A, B) ELSE BigSub(B, A),
                     E, FALSE)
AddAligned(sa, sb, A, B, E) == AddOrdered(sa, sb, A, B, E, BigCmp(A, B))
FAdd(a, b) ==
  IF IsNaN(a) \/ IsNaN(b) THEN NaN
  ELSE IF IsInf(a) THEN (IF IsInf(b) /\ a.s # b.s THEN NaN ELSE a)
  ELSE IF IsInf(b) THEN b
  ELSE IF IsZero(a) THEN b
  ELSE IF IsZero(b) THEN a
  ELSE AddAligned(a.s, b.s, BigShl(a.m, a.e - Min2(a.e, b.e)), BigShl(b.m, b.e - Min2(a.e, b.e)),
                  Min2(a.e, b.e))
FSub(a, b) == FAdd(a, FNeg(b))

\* comparison of two non-NaN values: -1, 0, 1
FCmp(a, b) ==
  LET MagCmp ==
        IF IsZero(a) THEN (IF IsZero(b) THEN 0 ELSE -1)
        ELSE IF IsZero(b) THEN 1
        ELSE IF a.e < b.e THEN -1 ELSE IF a.e > b.e THEN 1 ELSE BigCmp(a.m, b.m)
      SignOf(x) == IF IsZero(x) THEN 0 ELSE IF x.s = 1 THEN -1 ELSE 1
  IN IF SignOf(a) # SignOf(b) THEN (IF SignOf(a) < SignOf(b) THEN -1 ELSE 1)
     ELSE IF SignOf(a) = 0 THEN 0
     ELSE IF IsInf(a) THEN (IF IsInf(b) THEN 0 ELSE SignOf(a))
     ELSE IF IsInf(b) THEN -SignOf(a)
     ELSE SignOf(a) * MagCmp
FLt(a, b) == ~IsNaN(a) /\ ~IsNaN(b) /\ FCmp(a, b) < 0
FLe(a, b) == ~IsNaN(a) /\ ~IsNaN(b) /\ FCmp(a, b) <= 0
FEq(a, b) == ~IsNaN(a) /\ ~IsNaN(b) /\ FCmp(a, b) = 0

\* the double (-1)^s * n of an integer n
OfInteger(s, n) == IF n = <<>> THEN Zero ELSE RoundToDouble(s, n, 0, FALSE)
\* floor(a.m * 2^a.e), plus one when up
Whole(a, up) == IF up THEN BigAdd(BigShr(a.m, -a.e), <<1>>) ELSE BigShr(a.m, -a.e)

\* Math.floor
MathFloor(a) ==
  IF a.k # "num" \/ IsZero(a) \/ a.e >= 0 THEN a
  ELSE OfInteger(a.s, Whole(a, a.s = 1 /\ BigLowBits(a.m, -a.e)))

\* Math.round: nearest integer, ties toward +Infinity
MathRound(a) ==
  IF a.k # "num" \/ IsZero(a) \/ a.e >= 0 THEN a
  ELSE OfInteger(a.s, Whole(a, /\ BigBit(a.m, -a.e - 1) = 1
                               /\ (a.s = 0 \/ BigLowBits(a.m, -a.e - 1))))

\* Math.pow(10, k) for an integer k
Pow10(k) == Dec(0, 1, k)

\* -1, 0, 1: a.m * 2^a.e against 10^k, a > 0 finite
CmpPow10(a, k) ==
  BigCmp(BigShl(BigMul(a.m, IF k < 0 THEN BigPow10(-k) ELSE <<1>>), Max2(a.e, 0)),
         BigShl(IF k > 0 THEN BigPow10(k) ELSE <<1>>, Max2(-a.e, 0)))

\* floor(log10(a)) of the real number a, a > 0 finite
ExactMagnitude(a) ==
  LET RECURSIVE MagUp(_)
      MagUp(k) == IF CmpPow10(a, k + 1) >= 0 THEN MagUp(k + 1) ELSE k
      RECURSIVE MagDown(_)
      MagDown(k) == IF CmpPow10(a, k) < 0 THEN MagDown(k - 1) ELSE k
  IN MagUp(MagDown((((a.e + MantBits - 1) * 30103) \div 100000) - 1))

Ln10Q29 == 1236190365
RECURSIVE FloorLog2(_)
FloorLog2(n) == IF n <= 1 THEN 0 ELSE 1 + FloorLog2(n \div 2)
\* Math.floor(Math.log10(a)) as an integer, a > 0 finite
FloorLog10(a) ==
  LET IsPow2(n) == n = Pow2(FloorLog2(n))
      \* half the gap, as a power 2^-j, between the double K and its neighbour on the
      \* side of smaller values
      HalfGapExp(K) ==
        IF K > 0 /\ IsPow2(K) THEN 54 - FloorLog2(K)
        ELSE 53 - FloorLog2(IF K < 0 THEN -K ELSE K)
      \* for integers A < B: (B - A) / B <= ln(10) * 2^-j, j the half gap below K
      WithinHalfGap(A, B, K) ==
        BigCmp(BigShl(BigSub(B, A), HalfGapExp(K) + 29), BigMul(B, BigOfInt(Ln10Q29))) <= 0
      \* log10(a) rounds to the integer K although a < 10^K
      RoundsUpToLog(K) ==
        /\ K # 0
        /\ WithinHalfGap(BigMul(BigShl(a.m, Max2(a.e, 0)),
                                IF K < 0 THEN BigPow10(-K) ELSE <<1>>),
                         BigShl(IF K > 0 THEN BigPow10(K) ELSE <<1>>, Max2(-a.e, 0)), K)
      FloorFrom(k) == IF RoundsUpToLog(k + 1) THEN k + 1 ELSE k
  IN FloorFrom(ExactMagnitude(a))

\* <<floor(a / s), a mod s>> for a small divisor 0 < s < Base
BigDivModSmall(a, s) ==
  LET PutLimb(qr, limb) == <<Append(qr[1], limb), qr[2]>>
      \* <<quotient limbs i..1, remainder>>
      RECURSIVE DivSC(_, _)
      DivSC(i, r) ==
        IF i = 0 THEN <<(<<>>), r>>
        ELSE PutLimb(DivSC(i - 1, (r * Base + a[i]) % s), (r * Base + a[i]) \div s)
  IN TrimQuotient(DivSC(Len(a), 0))

RECURSIVE DigitsOf(_)
DigitsOf(D) ==
  IF D = <<>> THEN <<>>
  ELSE Append(DigitsOf(BigDivModSmall(D, 10)[1]), BigDivModSmall(D, 10)[2])
RECURSIVE StripZeros(_)
StripZeros(d) == IF Len(d) > 1 /\ d[Len(d)] = 0 THEN StripZeros(SubSeq(d, 1, Len(d) - 1)) ELSE d

MaxDecimalDigits == 17
\* The decimal digits of the shortest decimal that reads back as a (a > 0 finite):
\* the digits Number.prototype.toExponential() prints when called without argument.
\* Everything is scaled to integers in the unit 2^-S2 * 10^-S10.
\* c.A is the value, (c.lowB, c.highB) the interval of the reals that round to it,
\* closed when c.incl; L * unit, a decimal of n digits, is the candidate below c.A
ShortestDigits(a) ==
  LET RECURSIVE ShortestFrom(_, _)
      Candidate(n, c, L, unit, lo, hi) ==
        IF /\ L # <<>>
           /\ (BigCmp(lo, c.lowB) > 0 \/ (c.incl /\ BigCmp(lo, c.lowB) = 0))
           /\ \/ BigCmp(BigSub(c.A, lo), BigSub(hi, c.A)) <= 0
              \/ ~(BigCmp(hi, c.highB) < 0 \/ (c.incl /\ BigCmp(hi, c.highB) = 0))
        THEN DigitsOf(L)
        ELSE IF BigCmp(hi, c.highB) < 0 \/ (c.incl /\ BigCmp(hi, c.highB) = 0)
        THEN StripZeros(DigitsOf(BigAdd(L, <<1>>)))
        ELSE ShortestFrom(n + 1, c)
      CandidateAt(n, c, L, unit) ==
        Candidate(n, c, L, unit, BigMul(L, unit), BigAdd(BigMul(L, unit), unit))
      ShortestFrom(n, c) ==
        CandidateAt(n, c, BigDivMod(c.L, BigPow10(MaxDecimalDigits - n))[1],
                    BigMul(c.unit, BigPow10(MaxDecimalDigits - n)))
      \* the value 4 * a.m * scale and its rounding interval, in units of which unit is
      \* 10^qmin, the last of MaxDecimalDigits digits
      Interval(M4, scale, unit) ==
        [A |-> BigMul(M4, scale), unit |-> unit, L |-> BigDivMod(BigMul(M4, scale), unit)[1],
         lowB |-> BigMul(BigSub(M4, IF BigBitLen(BigSub(a.m, <<1>>)) < MantBits
                                    THEN <<1>> ELSE <<2>>), scale),
         highB |-> BigMul(BigAdd(M4, <<2>>), scale),
         incl |-> a.m[1] % 2 = 0]
      Scaled(qmin, S2, S10) ==
        Interval(BigMulSmall(a.m, 4), BigShl(BigPow10(S10), a.e - 2 + S2),
                 BigShl(BigPow10(qmin + S10), S2))
      ScaledFrom(qmin) == Scaled(qmin, Max2(0, 2 - a.e), Max2(0, -qmin))
  IN ShortestFrom(1, ScaledFrom(ExactMagnitude(a) - MaxDecimalDigits + 1))

\* the integer n with a = n, for an integer-valued finite a of small magnitude
RECURSIVE LimbsToInt(_, _)
LimbsToInt(a, i) == IF i > Len(a) THEN 0 ELSE a[i] + Base * LimbsToInt(a, i + 1)
ToInt(a) ==
  IF IsZero(a) THEN 0
  ELSE (IF a.s = 1 THEN -1 ELSE 1)
       * LimbsToInt(IF a.e >= 0 THEN BigShl(a.m, a.e) ELSE BigShr(a.m, -a.e), 1)
IsInteger(a) == isFinite(a) /\ (IsZero(a) \/ a.e >= 0 \/ ~BigLowBits(a.m, -a.e))

\* Math.floor(Math.log10(a)) as a Number
MagnitudeOf(a) ==
  IF IsNaN(a) THEN NaN
  ELSE IF IsZero(a) THEN Inf(1)
  ELSE IF a.s = 1 THEN NaN
  ELSE IF IsInf(a) THEN a
  ELSE Num(FloorLog10(a))

\* ---------- Math.log10 and Math.pow(10, x) on arbitrary arguments ----------
\* Both are computed in fixed point with FracBits fractional bits and then
\* rounded to the nearest double.
FracBits == 90
Ln10Fixed == <<28002, 23882, 11013, 21844, 3549, 9915, 2>>
Ln2Fixed == <<3790, 24143, 30618, 31289, 1533, 22713>>
FixMul(a, b) == BigShr(BigMul(a, b), FracBits)

\* acc + sum of pw * s2^j / (k + 2j), j >= 0: the atanh series
RECURSIVE AtanhSeries(_, _, _, _)
AtanhSeries(pw, s2, k, acc) ==
  IF pw = <<>> \/ Len(acc) < 0 THEN acc
  ELSE AtanhSeries(FixMul(pw, s2), s2, k + 2, BigAdd(acc, BigDivModSmall(pw, k)[1]))

\* the significand of 1
One53 == BigShl(<<1>>, MantBits - 1)
\* Math.log10(a)
MathLog10(a) ==
  LET \* 2 * atanh(s) = ln((1 + s) / (1 - s)), in fixed point
      Atanh2(s) == BigMulSmall(AtanhSeries(s, FixMul(s, s), 1, <<>>), 2)
      \* the double nearest to (E2 * ln 2 + lnz) / ln 10, for a value 2^E2 * z with ln z = lnz
      LogOf(E2, lnz) ==
        RoundToDouble(IF E2 >= 0 THEN 0 ELSE 1,
                      BigDivMod(BigShl(IF E2 >= 0 THEN BigAdd(BigMulSmall(Ln2Fixed, E2), lnz)
                                       ELSE BigSub(BigMulSmall(Ln2Fixed, -E2), lnz), FracBits),
                                Ln10Fixed)[1],
                      -FracBits, TRUE)
  IN IF IsNaN(a) THEN NaN
     ELSE IF IsZero(a) THEN Inf(1)
     ELSE IF a.s = 1 THEN NaN
     ELSE IF IsInf(a) THEN a
     ELSE IF a.m = One53 /\ a.e + MantBits - 1 = 0 THEN Zero
     ELSE LogOf(a.e + MantBits - 1,
                Atanh2(BigDivMod(BigShl(BigSub(a.m, One53), FracBits), BigAdd(a.m, One53))[1]))

\* acc + sum of term * r^j * k! / (k + j)!, j >= 0: the exponential series
RECURSIVE ExpSeries(_, _, _, _)
ExpSeries(term, r, k, acc) ==
  IF term = <<>> \/ Len(acc) < 0 THEN acc
  ELSE ExpSeries(BigDivModSmall(FixMul(term, r), k + 1)[1], r, k + 1, BigAdd(acc, term))
RECURSIVE SquareTimes(_, _)
SquareTimes(x, n) == IF n = 0 THEN x ELSE SquareTimes(FixMul(x, x), n - 1)

\* Math.pow(10, x) for a finite x that is not an integer
Pow10Real(x) ==
  LET \* 10^n * tenf, tenf in fixed point
      Pow10Times(n, tenf) ==
        IF n >= 0 THEN RoundToDouble(0, BigMul(tenf, BigPow10(n)), -FracBits, TRUE)
        ELSE RatToDouble(0, tenf, BigPow10(-n), -FracBits)
      \* exp(t) = exp(t / 16)^16, t in fixed point
      ExpOf(t) == SquareTimes(ExpSeries(BigShl(<<1>>, FracBits), BigShr(t, 4), 0, <<>>), 4)
      \* 10^(n + f), 0 < f < 1
      Pow10Parts(n, f) == Pow10Times(n, ExpOf(BigShr(BigMul(f.m, Ln10Fixed), -f.e)))
  IN Pow10Parts(ToInt(MathFloor(x)), FSub(x, MathFloor(x)))

\* Math.pow(10, x)
MathPow(x) ==
  IF IsNaN(x) THEN NaN
  ELSE IF IsInf(x) THEN (IF x.s = 0 THEN x ELSE Zero)
  ELSE IF IsInteger(x) THEN Pow10(ToInt(x))
  ELSE Pow10Real(x)

\* ---------- significant digits ----------
CountDigitsAfterPoint(digits, i, foundNonZero, count) == Len(digits) - 1
RECURSIVE CountDigits(_, _, _, _)
CountDigits(digits, i, foundNonZero, count) ==
  IF i > Len(digits) THEN count
  ELSE CountDigits(digits, i + 1, foundNonZero \/ digits[i] # 0,
                   IF foundNonZero \/ digits[i] # 0 THEN count + 1 ELSE count)

countSignificantDigits(value) ==
  IF ~isFinite(value) \/ IsZero(value) THEN 0
  ELSE CountDigits(ShortestDigits(FAbs(value)), 1, FALSE, 0)

\* const scale, the same in both rounding functions
scaleOf(value, significantDigits) ==
  LET absValue == FAbs(value)
      magnitude == MagnitudeOf(absValue)
  IN MathPow(FAdd(FSub(magnitude, Num(significantDigits)), Num(1)))

\* Math.round(value / scale) * scale
roundAtScale(value, scale) == FMul(MathRound(FDiv(value, scale)), scale)

roundToSignificantDigitsOfAnyCount(value, significantDigits) ==
  IF ~isFinite(value) \/ IsZero(value) THEN value
  ELSE roundAtScale(value, scaleOf(value, significantDigits))
roundToSignificantDigits(value, significantDigits) ==
  IF ~isFinite(value) \/ IsZero(value) \/ significantDigits <= 0 THEN value
  ELSE roundAtScale(value, scaleOf(value, significantDigits))

\* rounded * scale
roundHalfAtScale(value, scale) ==
  LET normalized == FDiv(value, scale)
      rounded == FDiv(MathRound(FMul(normalized, Num(2))), Num(2))
  IN FMul(rounded, scale)

roundToHalfSignificantDigits(value, significantDigits) ==
  IF ~isFinite(value) \/ IsZero(value) \/ significantDigits <= 0 THEN value
  ELSE roundHalfAtScale(value, scaleOf(value, significantDigits))

toSignificantDigits(value, significantDigits, mode) ==
  IF mode = "half" THEN roundToHalfSignificantDigits(value, significantDigits)
  ELSE roundToSignificantDigits(value, significantDigits)

\* ---------- scale generation ----------
\* let friendly
friendlyOfNearest(normalized) ==
  IF FLt(normalized, Dec(0, 15, -1)) THEN Num(1)
  ELSE IF FLt(normalized, Dec(0, 225, -2)) THEN Num(2)
  ELSE IF FLt(normalized, Dec(0, 375, -2)) THEN Dec(0, 25, -1)
  ELSE IF FLt(normalized, Dec(0, 75, -1)) THEN Num(5)
  ELSE Num(10)
friendlyOf(normalized) ==
  IF FLe(normalized, Num(1)) THEN Num(1)
  ELSE IF FLe(normalized, Num(2)) THEN Num(2)
  ELSE IF FLe(normalized, Dec(0, 25, -1)) THEN Dec(0, 25, -1)
  ELSE IF FLe(normalized, Num(5)) THEN Num(5)
  ELSE Num(10)

\* value < 0 ? -result : result
signedAs(value, friendlyResult) == IF FLt(value, Zero) THEN FNeg(friendlyResult) ELSE friendlyResult

\* power is Math.pow(10, magnitude), which the function computes twice
friendlyAtPower(value, absValue, power) ==
  LET normalized == FDiv(absValue, power)
      friendly == friendlyOf(normalized)
  IN signedAs(value, FMul(friendly, power))

roundToFriendlyNumber(value) ==
  IF IsZero(value) THEN Zero
  ELSE LET absValue == FAbs(value)
           magnitude == MagnitudeOf(absValue)
       IN friendlyAtPower(value, FAbs(value), MathPow(magnitude))

applyRounding(value, rounding, significantDigits) ==
  CASE rounding = "none" -> value
    [] rounding = "significant" -> roundToSignificantDigits(value, significantDigits)
    [] rounding = "half" -> roundToHalfSignificantDigits(value, significantDigits)
    [] rounding = "friendly" -> roundToFriendlyNumber(value)
    [] OTHER -> value

\* [...new Set(scale)]: the first occurrence of every value, in insertion order
\* (SameValueZero: NaN is one value)
DedupKeepAll(scale, k, acc) == scale
RECURSIVE Dedup(_, _, _)
Dedup(scale, k, acc) ==
  IF k > Len(scale) \/ Len(acc) < 0 THEN acc
  ELSE Dedup(scale, k + 1,
             IF \E j \in 1..Len(acc) : acc[j] = scale[k] THEN acc ELSE Append(acc, scale[k]))

\* position at which x enters the ascending sequence sorted
RECURSIVE InsertAt(_, _, _)
InsertAt(sorted, x, k) ==
  IF k > Len(sorted) \/ FLt(x, sorted[k]) THEN k ELSE InsertAt(sorted, x, k + 1)

RECURSIVE SortDesc(_, _, _)
SortDesc(values, k, acc) ==
  IF k > Len(values) \/ Len(acc) < 0 THEN acc
  ELSE LET at == InsertAt(acc, values[k], 1)
       IN SortDesc(values, k + 1,
                   SubSeq(acc, at, Len(acc)) \o <<values[k]>> \o SubSeq(acc, 1, at - 1))

RECURSIVE SortAsc(_, _, _)
SortAsc(values, k, acc) ==
  IF k > Len(values) \/ Len(acc) < 0 THEN acc
  ELSE LET at == InsertAt(acc, values[k], 1)
       IN SortAsc(values, k + 1,
                  SubSeq(acc, 1, at - 1) \o <<values[k]>> \o SubSeq(acc, at, Len(acc)))

HasNaN(values) == \E k \in 1..Len(values) : IsNaN(values[k])

Orderings(values) ==
  LET n == Len(values)
      perms == {p \in [1..n -> 1..n] : \A a, b \in 1..n : a # b => p[a] # p[b]}
  IN {[k \in 1..n |-> values[p[k]]] : p \in perms}

\* the arrays [...new Set(scale)].sort((a, b) => a - b) can evaluate to; with a NaN
\* among the values the comparator is not a consistent order and the result is
\* whatever order the engine's sort leaves
SortedSet(scale) ==
  LET distinct == Dedup(scale, 1, <<>>)
  IN IF HasNaN(distinct) THEN Orderings(distinct) ELSE {SortAsc(distinct, 1, <<>>)}

\* ---------- state ----------
VARIABLES
  fn,               \* the function being executed
  pc,               \* where it is: "call", a loop, "returned" or "thrown"
  args,             \* its arguments
  scale,            \* const scale: number[]
  i,                \* the loop counter of the for loops
  current,          \* let current
  multiplierIndex,  \* let multiplierIndex
  step,             \* const step (linear) or const logStep (exponential)
  logStart,         \* const logStart
  result,           \* the value returned
  history           \* the calls completed so far, oldest first

vars == <<fn, pc, args, scale, i, current, multiplierIndex, step, logStart, result, history>>

\* ---------- bounds of the exploration ----------
MaxSteps == 2
MaxScaleLen == 16
MaxCount == 4
MaxCalls == 2
MaxDigits == 3

ScaleProgression == {"linear", "exponential", "friendly"}
ScaleRounding == {"none", "significant", "half", "friendly"}

DefaultSignificantDigits == 2
DefaultSteps == 10

\* the option records callers pass: steps only where the progression reads it,
\* significantDigits only where the rounding reads it
GenerateScaleOptions ==
  {[progression |-> p, rounding |-> r, significantDigits |-> d, steps |-> st,
    includeStart |-> is, includeEnd |-> ie] :
     p \in ScaleProgression, r \in ScaleRounding, d \in {1, DefaultSignificantDigits},
     st \in (0..MaxSteps) \cup {DefaultSteps}, is \in BOOLEAN, ie \in BOOLEAN}

PassedOptions ==
  {o \in GenerateScaleOptions :
     /\ (o.progression = "friendly") = (o.steps = DefaultSteps)
     /\ o.rounding \in {"none", "friendly"} => o.significantDigits = DefaultSignificantDigits}

ScaleStarts == {Num(-10), Zero, Dec(0, 3, -1), Dec(0, 21, -1), Num(100), Num(150)}
ScaleEnds == {Num(2), Num(150), Num(1000)}

\* options = {}
DefaultOptions ==
  [progression |-> "friendly", rounding |-> "friendly",
   significantDigits |-> DefaultSignificantDigits, steps |-> DefaultSteps,
   includeStart |-> TRUE, includeEnd |-> TRUE]

\* the calls of the documentation and of the tests:
\* generateScale(100, 1_000_000), generateScale(0, 100, {progression: 'linear', steps: 10})
\* and generateScale(0, 100, {progression: 'linear', steps: 10, rounding: 'none'})
DocumentedCalls ==
  {[start |-> Num(100), end |-> Num(1000000), options |-> DefaultOptions],
   [start |-> Zero, end |-> Num(100), options |-> [DefaultOptions EXCEPT !.progression = "linear"]],
   [start |-> Zero, end |-> Num(100),
    options |-> [DefaultOptions EXCEPT !.progression = "linear", !.rounding = "none"]]}

\* a call on small values: generateScale(0.000001, 0.00001)
SmallCalls == {[start |-> Dec(0, 1, -6), end |-> Dec(0, 1, -5), options |-> DefaultOptions]}

\* ---------- generateScale ----------
InitScale ==
  /\ fn = "generateScale"
  /\ pc = "call"
  /\ args \in {[start |-> s, end |-> e, options |-> o] :
                 s \in ScaleStarts, e \in ScaleEnds, o \in PassedOptions}
              \cup DocumentedCalls \cup SmallCalls
  /\ scale = <<>>
  /\ i = 0
  /\ current = Zero
  /\ multiplierIndex = 0
  /\ step = Zero
  /\ logStart = Zero
  /\ result = <<>>
  /\ history = <<>>

\* start >= end
ThrowGuardStrict(start, end) == FLt(end, start)
ThrowGuard(start, end) == FLe(end, start)

\* if (include) { scale.push(value) }
pushAlways(include, values, value) == Append(values, value)
pushIf(include, values, value) == IF include THEN Append(values, value) ELSE values

\* const step = (end - start) / (steps + 1)
linearStepOverSteps(start, end, steps) == FDiv(FSub(end, start), Num(steps))
linearStep(start, end, steps) == FDiv(FSub(end, start), Num(steps + 1))

\* const value = start + step * i
linearValueNoOffset(start, stepSize, k) == FMul(stepSize, Num(k))
linearValue(start, stepSize, k) == FAdd(start, FMul(stepSize, Num(k)))

\* const value = Math.pow(10, logStart + logStep * i)
exponentialValue(logOfStart, logStep, k) == MathPow(FAdd(logOfStart, FMul(logStep, Num(k))))

\* if (start >= end) throw new Error('Start must be less than end')
Throw ==
  /\ fn = "generateScale" /\ pc = "call"
  /\ ThrowGuard(args.start, args.end)
  /\ pc' = "thrown"
  /\ UNCHANGED <<fn, args, scale, i, current, multiplierIndex, step, logStart, result, history>>

Rounded(value) == applyRounding(value, args.options.rounding, args.options.significantDigits)

\* the function up to the first test of its loop
Begin ==
  /\ fn = "generateScale" /\ pc = "call"
  /\ ~ThrowGuard(args.start, args.end)
  /\ LET o == args.options IN
     CASE o.progression = "linear" ->
            /\ step' = linearStep(args.start, args.end, o.steps)
            /\ scale' = pushIf(o.includeStart, scale, Rounded(args.start))
            /\ i' = 1
            /\ pc' = "linear"
            /\ UNCHANGED <<current, logStart>>
       [] o.progression = "exponential" ->
            /\ logStart' = MathLog10(args.start)
            /\ step' = FDiv(FSub(MathLog10(args.end), MathLog10(args.start)), Num(o.steps + 1))
            /\ scale' = pushIf(o.includeStart, scale, Rounded(args.start))
            /\ i' = 1
            /\ pc' = "exponential"
            /\ UNCHANGED current
       [] OTHER ->
            /\ scale' = pushIf(o.includeStart, scale, roundToFriendlyNumber(args.start))
            /\ current' = args.start
            /\ pc' = "friendly"
            /\ UNCHANGED <<i, step, logStart>>
  /\ UNCHANGED <<fn, args, multiplierIndex, result, history>>

\* the return statement
Return(values) ==
  /\ result' \in SortedSet(values)
  /\ scale' = values
  /\ pc' = "returned"

LinearIter ==
  /\ fn = "generateScale" /\ pc = "linear"
  /\ i <= args.options.steps
  /\ scale' = Append(scale, Rounded(linearValue(args.start, step, i)))
  /\ i' = i + 1
  /\ UNCHANGED <<fn, pc, args, current, multiplierIndex, step, logStart, result, history>>

LinearEnd ==
  /\ fn = "generateScale" /\ pc = "linear"
  /\ i > args.options.steps
  /\ Return(pushIf(args.options.includeEnd, scale, Rounded(args.end)))
  /\ UNCHANGED <<fn, args, i, current, multiplierIndex, step, logStart, history>>

ExponentialIter ==
  /\ fn = "generateScale" /\ pc = "exponential"
  /\ i <= args.options.steps
  /\ scale' = Append(scale, Rounded(exponentialValue(logStart, step, i)))
  /\ i' = i + 1
  /\ UNCHANGED <<fn, pc, args, current, multiplierIndex, step, logStart, result, history>>

ExponentialEnd ==
  /\ fn = "generateScale" /\ pc = "exponential"
  /\ i > args.options.steps
  /\ Return(pushIf(args.options.includeEnd, scale, Rounded(args.end)))
  /\ UNCHANGED <<fn, args, i, current, multiplierIndex, step, logStart, history>>

nextMultiplierAlwaysTwo(normalized) == Num(2)
nextMultiplier(normalized) ==
  IF FLt(normalized, Dec(0, 15, -1)) THEN Num(2)
  ELSE IF FLt(normalized, Dec(0, 225, -2)) THEN Dec(0, 25, -1)
  ELSE IF FLt(normalized, Num(4)) THEN Num(2)
  ELSE IF FLt(normalized, Dec(0, 75, -1)) THEN Num(2)
  ELSE Num(2)

\* one pass of while (current < end)
FriendlyIter ==
  /\ fn = "generateScale" /\ pc = "friendly"
  /\ FLt(current, args.end)
  /\ Len(scale) < MaxScaleLen
  /\ LET magnitude == MagnitudeOf(current)
         normalized == FDiv(current, MathPow(magnitude))
     IN current' = roundToFriendlyNumber(FMul(current, nextMultiplier(normalized)))
  /\ scale' = IF FLt(current', args.end) THEN Append(scale, current')
              ELSE pushIf(args.options.includeEnd, scale, roundToFriendlyNumber(args.end))
  /\ UNCHANGED <<fn, pc, args, i, multiplierIndex, step, logStart, result, history>>

FriendlyEnd ==
  /\ fn = "generateScale" /\ pc = "friendly"
  /\ ~FLt(current, args.end)
  /\ Return(scale)
  /\ UNCHANGED <<fn, args, i, current, multiplierIndex, step, logStart, history>>

NextScale ==
  \/ Throw
  \/ Begin
  \/ LinearIter
  \/ LinearEnd
  \/ ExponentialIter
  \/ ExponentialEnd
  \/ FriendlyIter
  \/ FriendlyEnd

SpecScale == InitScale /\ [][NextScale]_vars

\* ---------- generateScaleFromBaseline ----------
BaselineOptions ==
  {[progression |-> p, rounding |-> r, significantDigits |-> d] :
     p \in ScaleProgression, r \in ScaleRounding, d \in {1, DefaultSignificantDigits}}

Baselines == {Num(10), Num(100), Dec(0, 3, -1), Num(-5), Zero}

\* options = {}
DefaultBaselineOptions ==
  [progression |-> "friendly", rounding |-> "friendly",
   significantDigits |-> DefaultSignificantDigits]

\* the calls of the documentation and of the tests: generateScaleFromBaseline(100, 5),
\* generateScaleFromBaseline(10, 5, {progression: 'linear'}), the same with
\* rounding: 'none', and generateScaleFromBaseline(1, 4, {progression: 'exponential'})
DocumentedBaselineCalls ==
  {[baseline |-> Num(100), count |-> 5, options |-> DefaultBaselineOptions],
   [baseline |-> Num(10), count |-> 5,
    options |-> [DefaultBaselineOptions EXCEPT !.progression = "linear"]],
   [baseline |-> Num(10), count |-> 5,
    options |-> [DefaultBaselineOptions EXCEPT !.progression = "linear", !.rounding = "none"]],
   [baseline |-> Num(1), count |-> 4,
    options |-> [DefaultBaselineOptions EXCEPT !.progression = "exponential"]]}

InitBaseline ==
  /\ fn = "generateScaleFromBaseline"
  /\ pc = "call"
  /\ args \in {[baseline |-> b, count |-> c, options |-> o] :
                 b \in Baselines, c \in 0..MaxCount,
                 o \in {x \in BaselineOptions :
                          x.rounding \in {"none", "friendly"}
                             => x.significantDigits = DefaultSignificantDigits}}
              \cup DocumentedBaselineCalls
  /\ scale = <<>>
  /\ i = 0
  /\ current = Zero
  /\ multiplierIndex = 0
  /\ step = Zero
  /\ logStart = Zero
  /\ result = <<>>
  /\ history = <<>>

multipliersAllTwo == <<Num(2), Num(2), Num(2)>>
multipliers == <<Num(2), Dec(0, 25, -1), Num(2)>>

\* the function up to the first test of its loop
BaselineBegin ==
  /\ fn = "generateScaleFromBaseline" /\ pc = "call"
  /\ scale' = <<Rounded(args.baseline)>>
  /\ i' = 1
  /\ current' = IF args.options.progression \in {"linear", "exponential"} THEN current
                ELSE args.baseline
  /\ pc' = IF args.options.progression \in {"linear", "exponential"}
           THEN args.options.progression ELSE "friendly"
  /\ UNCHANGED <<fn, args, multiplierIndex, step, logStart, result, history>>

BaselineLinearIter ==
  /\ fn = "generateScaleFromBaseline" /\ pc = "linear"
  /\ i < args.count
  /\ scale' = Append(scale, Rounded(FMul(args.baseline, Num(i + 1))))
  /\ i' = i + 1
  /\ UNCHANGED <<fn, pc, args, current, multiplierIndex, step, logStart, result, history>>

BaselineExponentialIter ==
  /\ fn = "generateScaleFromBaseline" /\ pc = "exponential"
  /\ i < args.count
  /\ scale' = Append(scale, Rounded(FMul(args.baseline, MathPow(Num(i)))))
  /\ i' = i + 1
  /\ UNCHANGED <<fn, pc, args, current, multiplierIndex, step, logStart, result, history>>

BaselineFriendlyIter ==
  /\ fn = "generateScaleFromBaseline" /\ pc = "friendly"
  /\ i < args.count
  /\ current' = FMul(current, multipliers[(multiplierIndex % Len(multipliers)) + 1])
  /\ scale' = Append(scale, Rounded(current'))
  /\ multiplierIndex' = multiplierIndex + 1
  /\ i' = i + 1
  /\ UNCHANGED <<fn, pc, args, step, logStart, result, history>>

\* return scale
BaselineReturn ==
  /\ fn = "generateScaleFromBaseline" /\ pc \in {"linear", "exponential", "friendly"}
  /\ ~(i < args.count)
  /\ result' = scale
  /\ pc' = "returned"
  /\ UNCHANGED <<fn, args, scale, i, current, multiplierIndex, step, logStart, history>>

NextBaseline ==
  \/ BaselineBegin
  \/ BaselineLinearIter
  \/ BaselineExponentialIter
  \/ BaselineFriendlyIter
  \/ BaselineReturn

SpecBaseline == InitBaseline /\ [][NextBaseline]_vars

\* ---------- callers of the significant-digit functions ----------
DigitFunctions ==
  {"countSignificantDigits", "roundToSignificantDigits", "roundToHalfSignificantDigits"}

DigitValues ==
  {Zero, NaN, Inf(0), Inf(1), Num(1000), Num(1200), Num(1234), Num(-1234), Num(1250),
   Num(-1250), Num(1321), Num(1750), Dec(0, 12, -5), Dec(0, 1234, -6), Dec(0, 12345, -2),
   Dec(0, 1234, -3), Dec(0, 3, -2), Dec(0, 996, -2), Dec(0, 9996, -10)}

\* SignificantDigitsOptions
SignificantDigitsOptions == {[mode |-> m] : m \in {"full", "half"}}

InitDigits ==
  /\ \/ /\ fn \in DigitFunctions
        /\ args \in {[value |-> v, significantDigits |-> n] :
                       v \in DigitValues, n \in (-1)..MaxDigits}
     \/ /\ fn = "toSignificantDigits"
        /\ args \in {[value |-> v, significantDigits |-> n, options |-> o] :
                       v \in DigitValues, n \in (-1)..MaxDigits, o \in SignificantDigitsOptions}
  /\ pc = "call"
  /\ scale = <<>>
  /\ i = 0
  /\ current = Zero
  /\ multiplierIndex = 0
  /\ step = Zero
  /\ logStart = Zero
  /\ result = Zero
  /\ history = <<>>

\* the call returns value r
Returns(r) ==
  /\ result' = r
  /\ history' = Append(history, [fn |-> fn, value |-> args.value,
                                 significantDigits |-> args.significantDigits, result |-> r])
  /\ pc' = "returned"
  /\ UNCHANGED <<fn, args, scale, i, current, multiplierIndex, step, logStart>>

CountSignificantDigits ==
  /\ fn = "countSignificantDigits" /\ pc = "call"
  /\ Returns(countSignificantDigits(args.value))

RoundToSignificantDigits ==
  /\ fn = "roundToSignificantDigits" /\ pc = "call"
  /\ Returns(roundToSignificantDigits(args.value, args.significantDigits))

RoundToHalfSignificantDigits ==
  /\ fn = "roundToHalfSignificantDigits" /\ pc = "call"
  /\ Returns(roundToHalfSignificantDigits(args.value, args.significantDigits))

ToSignificantDigits ==
  /\ fn = "toSignificantDigits" /\ pc = "call"
  /\ Returns(toSignificantDigits(args.value, args.significantDigits, args.options.mode))

\* the caller passes the number returned to one of the functions, at the same digit count
CallOnResult ==
  /\ fn \in {"roundToSignificantDigits", "roundToHalfSignificantDigits"} /\ pc = "returned"
  /\ Len(history) < MaxCalls
  /\ fn' \in DigitFunctions
  /\ args' = [args EXCEPT !.value = result]
  /\ pc' = "call"
  /\ UNCHANGED <<scale, i, current, multiplierIndex, step, logStart, result, history>>

\* the caller passes the opposite number, -value, to the same function at the same digit count
CallOnOpposite ==
  /\ fn \in {"roundToSignificantDigits", "roundToHalfSignificantDigits"} /\ pc = "returned"
  /\ Len(history) < MaxCalls
  /\ args' = [args EXCEPT !.value = FNeg(args.value)]
  /\ pc' = "call"
  /\ UNCHANGED <<fn, scale, i, current, multiplierIndex, step, logStart, result, history>>

NextDigits ==
  \/ CountSignificantDigits
  \/ RoundToSignificantDigits
  \/ RoundToHalfSignificantDigits
  \/ ToSignificantDigits
  \/ CallOnResult
  \/ CallOnOpposite

SpecDigits == InitDigits /\ [][NextDigits]_vars

\* ---------- scaleNumber, scaleNumberInverse ----------
DefaultMinSignificantDigits == 1
DefaultMaxSignificantDigits == 15

\* the option records callers pass: the digit bounds only where they are read
PassedScaleOptions ==
  {o \in [preserveSignificantDigits : BOOLEAN,
          minSignificantDigits : {DefaultMinSignificantDigits, 2},
          maxSignificantDigits : {3, DefaultMaxSignificantDigits}] :
     /\ (o.minSignificantDigits = DefaultMinSignificantDigits)
           = (o.maxSignificantDigits = DefaultMaxSignificantDigits)
     /\ ~o.preserveSignificantDigits => o.minSignificantDigits = DefaultMinSignificantDigits}

\* const targetSigDigits
targetSigDigits(originalSigDigits, options) ==
  Max2(options.minSignificantDigits, Min2(options.maxSignificantDigits, originalSigDigits))

scaleNumber(value, ratio, options) ==
  LET \* the function after const scaled = value * ratio
      returnScaled(scaled) ==
        IF ~options.preserveSignificantDigits THEN scaled
        ELSE roundToSignificantDigits(scaled,
                                      targetSigDigits(countSignificantDigits(value), options))
  IN returnScaled(FMul(value, ratio))

scaleNumberInverseSameRatio(value, ratio, options) == scaleNumber(value, ratio, options)
scaleNumberInverse(value, ratio, options) == scaleNumber(value, FDiv(Num(1), ratio), options)

InitScaling ==
  /\ fn \in {"scaleNumber", "scaleNumberInverse"}
  /\ pc = "call"
  /\ args \in {[value |-> v, ratio |-> r, options |-> o] :
                 v \in {Num(1), Num(7), Num(-7), Dec(0, 25, -1), Num(40), Num(100),
                        Dec(0, 123456, -3), Dec(0, 12, -5)},
                 r \in {Zero, Dec(0, 5, -1), Num(1), Dec(0, 15, -1), Num(2), Num(16), Num(49),
                        Dec(0, 36525, -2)},
                 o \in PassedScaleOptions}
  /\ scale = <<>>
  /\ i = 0
  /\ current = Zero
  /\ multiplierIndex = 0
  /\ step = Zero
  /\ logStart = Zero
  /\ result = Zero
  /\ history = <<>>

\* the call returns value r
ReturnsScaled(r) ==
  /\ result' = r
  /\ history' = Append(history, [fn |-> fn, value |-> args.value, ratio |-> args.ratio,
                                 options |-> args.options, result |-> r])
  /\ pc' = "returned"
  /\ UNCHANGED <<fn, args, scale, i, current, multiplierIndex, step, logStart>>

ScaleNumber ==
  /\ fn = "scaleNumber" /\ pc = "call"
  /\ ReturnsScaled(scaleNumber(args.value, args.ratio, args.options))

ScaleNumberInverse ==
  /\ fn = "scaleNumberInverse" /\ pc = "call"
  /\ ReturnsScaled(scaleNumberInverse(args.value, args.ratio, args.options))

\* the caller converts the number scaleNumber returned back, with the same ratio and options
InverseOnResult ==
  /\ fn = "scaleNumber" /\ pc = "returned"
  /\ Len(history) < MaxCalls
  /\ fn' = "scaleNumberInverse"
  /\ args' = [args EXCEPT !.value = result]
  /\ pc' = "call"
  /\ UNCHANGED <<scale, i, current, multiplierIndex, step, logStart, result, history>>

NextScaling ==
  \/ ScaleNumber
  \/ ScaleNumberInverse
  \/ InverseOnResult

SpecScaling == InitScaling /\ [][NextScaling]_vars

\* ---------- roundToFriendlyNumber ----------
\* the values it is applied to: zero and, of either sign, two-digit significands at
\* several powers of ten
InitFriendly ==
  /\ fn = "roundToFriendlyNumber"
  /\ pc = "call"
  /\ args \in {[value |-> Zero]} \cup
              {[value |-> Dec(s, d, q)] :
                 s \in {0, 1},
                 d \in {10, 11, 15, 20, 21, 25, 26, 30, 50, 51, 75, 99},
                 q \in {-17, -3, -2, -1, 1, 21}}
  /\ scale = <<>>
  /\ i = 0
  /\ current = Zero
  /\ multiplierIndex = 0
  /\ step = Zero
  /\ logStart = Zero
  /\ result = Zero
  /\ history = <<>>

RoundToFriendlyNumber ==
  /\ fn = "roundToFriendlyNumber" /\ pc = "call"
  /\ result' = roundToFriendlyNumber(args.value)
  /\ pc' = "returned"
  /\ UNCHANGED <<fn, args, scale, i, current, multiplierIndex, step, logStart, history>>

NextFriendly == RoundToFriendlyNumber

SpecFriendly == InitFriendly /\ [][NextFriendly]_vars

\* ---------- formatFriendlyNumber ----------
\* An object is a function from the names of the properties it has; undefined stands
\* for a string-valued option that was not passed.
undefined == "undefined"
EmptyObject == [key \in {} |-> undefined]
Has(object, key) == key \in DOMAIN object
\* { ...object, [key]: val }
Put(object, key, val) ==
  [name \in DOMAIN object \cup {key} |-> IF name = key THEN val ELSE object[name]]
\* { ...object, ...other }
Merge(object, other) ==
  [name \in DOMAIN object \cup DOMAIN other |->
     IF name \in DOMAIN other THEN other[name] ELSE object[name]]

getIntelligentMaxDecimalsStandard(value, compact) ==
  LET atLeast(bound, absValue) == FLe(bound, absValue)
      decimalsOf(absValue) ==
        IF atLeast(Num(100), absValue) THEN 0
        ELSE IF atLeast(Num(10), absValue) THEN 1
        ELSE IF atLeast(Num(1), absValue) THEN 2
        ELSE IF atLeast(Dec(0, 1, -2), absValue) THEN 3
        ELSE 4
  IN decimalsOf(FAbs(value))
getIntelligentMaxDecimals(value, compact) ==
  LET atLeast(bound, absValue) == FLe(bound, absValue)
      decimalsOf(absValue) ==
        IF compact
        THEN IF atLeast(Num(1000), absValue) THEN 2
             ELSE IF atLeast(Num(100), absValue) THEN 1
             ELSE IF atLeast(Num(10), absValue) THEN 1
             ELSE 2
        ELSE IF atLeast(Num(1000), absValue) THEN 0
             ELSE IF atLeast(Num(100), absValue) THEN 0
             ELSE IF atLeast(Num(10), absValue) THEN 1
             ELSE IF atLeast(Num(1), absValue) THEN 2
             ELSE IF atLeast(Dec(0, 1, -2), absValue) THEN 3
             ELSE 4
  IN decimalsOf(FAbs(value))

resolveDisplayOptions(display, currency, unit, code, accounting, value) ==
  LET between(absValue) == FLt(Zero, absValue) /\ FLt(absValue, Num(1))
      \* notation and compactDisplay
      notation ==
        IF display \notin {"short", "long"} THEN [notation |-> "standard"]
        ELSE IF display = "short" /\ currency = undefined /\ unit = undefined
        THEN IF between(FAbs(value))
             THEN [notation |-> "scientific"]
             ELSE [notation |-> "compact", compactDisplay |-> "short"]
        ELSE [notation |-> "compact",
              compactDisplay |-> IF display = "long" THEN "long" ELSE "short"]
      \* currencySign, currencyDisplay and unitDisplay
      symbols(options) ==
        IF currency # undefined
        THEN Put(IF accounting THEN Put(options, "currencySign", "accounting") ELSE options,
                 "currencyDisplay",
                 IF code THEN "code"
                 ELSE CASE display = "standard" -> "symbol"
                        [] display = "short" -> "narrowSymbol"
                        [] display = "long" -> "name"
                        [] OTHER -> "symbol")
        ELSE IF unit # undefined
        THEN Put(options, "unitDisplay", IF display = "long" THEN "long" ELSE "short")
        ELSE options
  IN symbols(notation)

\* formatOptions before the decimals are applied
derivedOptions(options, displayOptions) ==
  LET \* if (!format?.key) formatOptions.key = val
      set(formatOptions, key, val) ==
        IF Has(options.format, key) THEN formatOptions ELSE Put(formatOptions, key, val)
      \* if (!format?.style) { ... }
      setStyle(formatOptions) ==
        IF Has(options.format, "style") THEN formatOptions
        ELSE IF options.currency # undefined
        THEN Put(Put(formatOptions, "style", "currency"), "currency", options.currency)
        ELSE IF options.unit # undefined
        THEN Put(Put(formatOptions, "style", "unit"), "unit", options.unit)
        ELSE IF options.percent THEN Put(formatOptions, "style", "percent")
        ELSE formatOptions
      \* if (displayOptions.key && !format?.key) formatOptions.key = displayOptions.key
      copy(formatOptions, key) ==
        IF Has(displayOptions, key) /\ ~Has(options.format, key)
        THEN Put(formatOptions, key, displayOptions[key])
        ELSE formatOptions
  IN copy(copy(copy(copy(
       setStyle(set(set(options.format, "notation", displayOptions.notation),
                    "signDisplay", IF options.sign THEN "exceptZero" ELSE "auto")),
       "currencyDisplay"), "currencySign"), "unitDisplay"), "compactDisplay")

\* decimals: [kind |-> "auto"], [kind |-> "number", value |-> n] or
\* [kind |-> "object"] with min, max or both
withDecimals(formatOptions, decimals, maxDecimals) ==
  LET setIf(object, from, key) ==
        IF Has(decimals, from) THEN Put(object, key, decimals[from]) ELSE object
  IN CASE decimals.kind = "auto" ->
            Put(Put(formatOptions, "maximumFractionDigits", maxDecimals),
                "minimumFractionDigits", 0)
       [] decimals.kind = "number" ->
            Put(Put(formatOptions, "minimumFractionDigits", decimals.value),
                "maximumFractionDigits", decimals.value)
       [] OTHER ->
            setIf(setIf(formatOptions, "min", "minimumFractionDigits"),
                  "max", "maximumFractionDigits")

\* The formatter that formatFriendlyNumber builds and the values it formats with it;
\* value is a sequence of one Number, or of two for a range.
formatFriendlyNumber(value, options) ==
  LET \* processedValue, or processedStart and processedEnd
      processed ==
        [k \in 1..Len(value) |->
           IF Has(options, "significantDigits") /\ options.significantDigits > 0
           THEN roundToSignificantDigits(value[k], options.significantDigits)
           ELSE value[k]]
      \* maxDecimals, or Math.max(maxDecimalsStart, maxDecimalsEnd)
      maxDecimals(values, isCompact) ==
        IF Len(values) = 2
        THEN Max2(getIntelligentMaxDecimals(values[1], isCompact),
                  getIntelligentMaxDecimals(values[2], isCompact))
        ELSE getIntelligentMaxDecimals(values[1], isCompact)
      formatter(displayOptions, values) ==
        [locale |-> "en-US",
         formatOptions |->
           withDecimals(derivedOptions(options, displayOptions), options.decimals,
                        maxDecimals(values, displayOptions.notation = "compact")),
         values |-> values]
  IN formatter(resolveDisplayOptions(options.display, options.currency, options.unit,
                                     options.code, options.accounting, value[1]),
               processed)

\* the options callers pass; no format is the empty object
FriendlyNumberOptions ==
  LET \* currency, code, accounting, unit and percent as callers combine them
      StyleOptions ==
        {o \in [currency : {undefined, "USD"}, code : BOOLEAN, accounting : BOOLEAN,
                unit : {undefined, "kilometer-per-hour"}, percent : BOOLEAN] :
           /\ o.currency = undefined => (~o.code /\ ~o.accounting)
           /\ o.currency # undefined => (o.unit = undefined /\ ~o.percent)
           /\ o.unit # undefined => ~o.percent}
      DecimalsOptions ==
        {[kind |-> "auto"], [kind |-> "number", value |-> 2], [kind |-> "object", min |-> 1]}
      FormatOverrides ==
        {EmptyObject,
         [notation |-> "scientific"], [signDisplay |-> "never"], [style |-> "decimal"],
         [currencyDisplay |-> "name"], [currencySign |-> "standard"],
         [unitDisplay |-> "narrow"], [compactDisplay |-> "long"],
         [minimumFractionDigits |-> 3], [maximumFractionDigits |-> 3],
         [style |-> "decimal", minimumFractionDigits |-> 3, maximumFractionDigits |-> 3]}
  IN {Merge(Merge(st, sd), [display |-> d, sign |-> sg, decimals |-> dc, format |-> f]) :
        st \in StyleOptions, sd \in {EmptyObject, [significantDigits |-> 2]},
        d \in {undefined, "standard", "short", "long"}, sg \in BOOLEAN,
        dc \in DecimalsOptions, f \in FormatOverrides}

InitFormat ==
  /\ fn = "formatFriendlyNumber"
  /\ pc = "call"
  /\ args \in {[value |-> v, options |-> o] :
                 v \in {<<Dec(0, 12345678, -4)>>, <<Dec(0, 996, -1)>>, <<Num(50)>>, <<Num(5)>>,
                        <<Dec(0, 5, -1)>>,
                        <<Dec(0, 5, -3)>>, <<Num(100), Num(200)>>, <<Dec(0, 5, -1), Num(1234)>>},
                 o \in FriendlyNumberOptions}
  /\ scale = <<>>
  /\ i = 0
  /\ current = Zero
  /\ multiplierIndex = 0
  /\ step = Zero
  /\ logStart = Zero
  /\ result = EmptyObject
  /\ history = <<>>

FormatFriendlyNumber ==
  /\ fn = "formatFriendlyNumber" /\ pc = "call"
  /\ result' = formatFriendlyNumber(args.value, args.options)
  /\ pc' = "returned"
  /\ UNCHANGED <<fn, args, scale, i, current, multiplierIndex, step, logStart, history>>

NextFormat == FormatFriendlyNumber

SpecFormat == InitFormat /\ [][NextFormat]_vars

\* ---------- claims about generateScale ----------
Returned == fn = "generateScale" /\ pc = "returned"
First(values) == values[1]
Last(values) == values[Len(values)]
StrictlyAscending(values) == \A k \in 1..(Len(values) - 1) : FLt(values[k], values[k + 1])

\* the rounding generateScale applies to start and end
BoundRounding(value) ==
  IF args.options.progression \in {"linear", "exponential"} THEN Rounded(value)
  ELSE roundToFriendlyNumber(value)

\* C1: generateScale throws exactly when start >= end, whatever the progression and
\* rounding, and it throws before any value is produced.
C1_ThrowsIffStartNotBelowEnd ==
  (fn = "generateScale" /\ pc # "call") =>
     /\ (pc = "thrown") = ~FLt(args.start, args.end)
     /\ pc = "thrown" => (scale = <<>> /\ result = <<>>)

C1_Witness == fn = "generateScale" /\ pc = "thrown" /\ FEq(args.start, args.end)

\* C2 as stated: every returned sequence is strictly ascending.
C2_StrictlyAscending == Returned => StrictlyAscending(result)

\* C2 as amended: a returned sequence holds a NaN only in exponential progression
\* with start <= 0 and steps >= 1; every returned sequence without NaN is strictly
\* ascending.
C2_StrictlyAscendingWithoutNaN ==
  Returned =>
     /\ HasNaN(result) => /\ args.options.progression = "exponential"
                          /\ FLe(args.start, Zero)
                          /\ args.options.steps >= 1
     /\ ~HasNaN(result) => StrictlyAscending(result)

C2_Witness == Returned /\ ~HasNaN(result) /\ Len(result) >= 2 /\ Len(result) < Len(scale)

\* C3 as stated: with includeStart and includeEnd the first element is
\* applyRounding(start) and the last is applyRounding(end), in every progression.
C3_FirstLastUnderActiveRounding ==
  (Returned /\ args.options.includeStart /\ args.options.includeEnd) =>
     /\ First(result) = Rounded(args.start)
     /\ Last(result) = Rounded(args.end)

\* C3 as amended: with includeStart and includeEnd, a returned sequence without NaN
\* starts with applyRounding(start) and ends with applyRounding(end) in linear and
\* exponential progression, and starts with roundToFriendlyNumber(start) and ends
\* with roundToFriendlyNumber(end) in friendly progression, whatever the rounding.
C3_FirstLastRoundedBounds ==
  (Returned /\ args.options.includeStart /\ args.options.includeEnd /\ ~HasNaN(result)) =>
     /\ First(result) = BoundRounding(args.start)
     /\ Last(result) = BoundRounding(args.end)

C3_Witness ==
  /\ Returned /\ args.options.includeStart /\ args.options.includeEnd
  /\ args.options.progression = "friendly" /\ args.options.rounding = "none"
  /\ First(result) # args.start

\* C4: generateScale terminates: the for loops of linear and exponential progression
\* count i from 1 to steps, and every pass of the friendly loop moves current strictly
\* towards end, so that current >= end is reached.
C4_LoopsProgress ==
  [][/\ (pc \in {"linear", "exponential"} /\ pc' = pc) => (i' = i + 1 /\ i <= args.options.steps)
     /\ (pc = "friendly" /\ pc' = "friendly") => FLt(current, current')]_vars

C6_BoundsLeftOut ==
  (Returned /\ ~args.options.includeStart /\ ~args.options.includeEnd /\ Len(result) > 0) =>
     /\ First(result) # args.start
     /\ Last(result) # args.end

\* C6 as amended: the same, in friendly progression and under rounding "none"; under
\* another rounding, linear and exponential points can round onto a bound.
C6_BoundsLeftOutUnlessRounded ==
  (/\ Returned /\ ~args.options.includeStart /\ ~args.options.includeEnd /\ Len(result) > 0
   /\ (args.options.progression = "friendly" \/ args.options.rounding = "none")) =>
     /\ First(result) # args.start
     /\ Last(result) # args.end

C6_Witness ==
  /\ Returned /\ ~args.options.includeStart /\ ~args.options.includeEnd
  /\ args.options.progression = "friendly" /\ Len(result) >= 2

\* current / Math.pow(10, Math.floor(Math.log10(current))) lies in [1.5, 2.25)
InSecondBand(value) ==
  LET between(normalized) == FLe(Dec(0, 15, -1), normalized) /\ FLt(normalized, Dec(0, 225, -2))
  IN between(FDiv(value, MathPow(MagnitudeOf(value))))

\* a pass of the friendly loop of a call with 0 < start
FriendlyPass ==
  /\ fn = "generateScale" /\ pc = "friendly" /\ FLt(Zero, args.start)
  /\ scale' # scale \/ current' # current

\* C21 as stated: every pass of the friendly loop takes current to
\* roundToFriendlyNumber(2 * current), whatever its normalized mantissa is.
C21_AlwaysTimesTwo ==
  [][FriendlyPass => current' = roundToFriendlyNumber(FMul(current, Num(2)))]_vars

\* C21 amended: a pass of the friendly loop takes current to
\* roundToFriendlyNumber(2.5 * current) when the normalized mantissa of current lies
\* in [1.5, 2.25), and to roundToFriendlyNumber(2 * current) otherwise.
C21_TimesTwoOrTwoAndAHalf ==
  [][FriendlyPass =>
       current' = roundToFriendlyNumber(
                    FMul(current, IF InSecondBand(current) THEN Dec(0, 25, -1) ELSE Num(2)))]_vars

\* the first pass was made from a start in the band, and 2.5 * start does not round
\* as 2 * start does
C21_Witness ==
  /\ fn = "generateScale" /\ pc = "friendly" /\ FLt(Zero, args.start)
  /\ InSecondBand(args.start)
  /\ current = roundToFriendlyNumber(FMul(args.start, Dec(0, 25, -1)))
  /\ current # roundToFriendlyNumber(FMul(args.start, Num(2)))

\* ---------- claims about generateScaleFromBaseline ----------
\* C7: generateScaleFromBaseline returns exactly count values, for every count >= 0.
C7_ExactlyCountValues ==
  (fn = "generateScaleFromBaseline" /\ pc = "returned") => Len(result) = args.count

\* the sequence of the Numbers of a sequence of integers
Nums(ints) == [k \in 1..Len(ints) |-> Num(ints[k])]

\* C16: generateScale(100, 1_000_000) with default options returns
\* [100, 200, 500, 1000, 2000, 5000, 10000, 25000, 50000, 100000, 200000, 500000, 1000000].
C16_FriendlyExample ==
  (Returned /\ args = [start |-> Num(100), end |-> Num(1000000), options |-> DefaultOptions]) =>
     result = Nums(<<100, 200, 500, 1000, 2000, 5000, 10000, 25000, 50000, 100000, 200000,
                     500000, 1000000>>)

\* C18: generateScale(0, 100, {progression: 'linear', steps: 10}) with the default
\* rounding returns [0, 10, 20, 30, 40, 50, 60, 70, 80, 90, 100].
C18_LinearExample ==
  (/\ Returned
   /\ args = [start |-> Zero, end |-> Num(100),
              options |-> [DefaultOptions EXCEPT !.progression = "linear"]]) =>
     result = Nums(<<0, 10, 20, 30, 40, 50, 60, 70, 80, 90, 100>>)

\* C17: generateScaleFromBaseline(10, 5, {progression: 'linear'}) with the default
\* rounding returns [10, 20, 30, 40, 50]; with default options otherwise, element i of
\* a linear baseline scale is baseline * (i + 1).
C17_LinearBaselineExample ==
  (/\ fn = "generateScaleFromBaseline" /\ pc = "returned"
   /\ args.options = [DefaultBaselineOptions EXCEPT !.progression = "linear"]) =>
     /\ (args.baseline = Num(10) /\ args.count = 5) => result = Nums(<<10, 20, 30, 40, 50>>)
     /\ \A k \in 1..Len(result) : result[k] = FMul(args.baseline, Num(k))

\* value is the Number d * 10^k for a d of {1, 2, 2.5, 5} and an integer k
IsFriendlyNumber(value) ==
  \E d \in {10, 20, 25, 50}, q \in -9..7 : value = Dec(0, d, q)

\* C26: for 0 < start < end every value generateScale returns in friendly progression
\* is d * 10^k with d in {1, 2, 2.5, 5} and k an integer.
C26_AllFriendlyNumbers ==
  (Returned /\ args.options.progression = "friendly" /\ FLt(Zero, args.start)) =>
     \A k \in 1..Len(result) : IsFriendlyNumber(result[k])

\* the call is linear, unrounded and keeps both ends
EvenlySpacedCall ==
  /\ Returned
  /\ args.options.progression = "linear" /\ args.options.rounding = "none"
  /\ args.options.includeStart /\ args.options.includeEnd

\* C24: with progression 'linear', rounding 'none', both ends included and steps = n,
\* generateScale returns exactly n + 2 values, the first start, the last end, and the
\* i-th between them start + i * ((end - start) / (n + 1)).
C24_EvenlySpaced ==
  EvenlySpacedCall =>
     LET n == args.options.steps
         spacing == FDiv(FSub(args.end, args.start), Num(n + 1))
     IN /\ Len(result) = n + 2
        /\ result[1] = args.start
        /\ result[n + 2] = args.end
        /\ \A k \in 1..n : result[k + 1] = FAdd(args.start, FMul(Num(k), spacing))

\* generateScale(0, 150, {progression: 'linear', rounding: 'none', steps: 2}) is
\* [0, 50, 100, 150]
C24_Witness ==
  /\ EvenlySpacedCall
  /\ args.start = Zero /\ args.end = Num(150) /\ args.options.steps = 2
  /\ result = Nums(<<0, 50, 100, 150>>)

\* baseline * m_0 * ... * m_(n-1), multiplied from the left, m_j being entry j mod 3 of
\* [2, 2.5, 2]
RECURSIVE RunningProduct(_, _)
RunningProduct(baseline, n) ==
  IF n = 0 THEN baseline
  ELSE FMul(RunningProduct(baseline, n - 1),
            IF (n - 1) % 3 = 1 THEN Dec(0, 25, -1) ELSE Num(2))

\* C23: in the friendly progression of generateScaleFromBaseline element 0 is
\* applyRounding(baseline) and element i >= 1 is applyRounding of the unrounded running
\* product baseline * m_0 * ... * m_(i-1) over the cycle [2, 2.5, 2];
\* generateScaleFromBaseline(100, 5) = [100, 200, 500, 1000, 2000].
C23_RunningProductRounded ==
  (/\ fn = "generateScaleFromBaseline" /\ pc = "returned"
   /\ args.options.progression = "friendly") =>
     /\ \A k \in 1..Len(result) : result[k] = Rounded(RunningProduct(args.baseline, k - 1))
     /\ args = [baseline |-> Num(100), count |-> 5, options |-> DefaultBaselineOptions]
           => result = Nums(<<100, 200, 500, 1000, 2000>>)

\* from 0.3 the products 0.6, 1.5, 3 are rounded to 1, 2, 5; rounding the running value
\* (0.5, 1, 2.5, 5) would have given 2.5
C23_Witness ==
  /\ fn = "generateScaleFromBaseline" /\ pc = "returned"
  /\ args = [baseline |-> Dec(0, 3, -1), count |-> 4, options |-> DefaultBaselineOptions]
  /\ result = <<Dec(0, 5, -1), Num(1), Num(2), Num(5)>>

\* ---------- claims about roundToFriendlyNumber ----------
Anchors == {Num(1), Num(2), Dec(0, 25, -1), Num(5), Num(10)}
FriendlyReturned == fn = "roundToFriendlyNumber" /\ pc = "returned"
\* Math.pow(10, Math.floor(Math.log10(|value|)))
PowerOf(value) == MathPow(MagnitudeOf(FAbs(value)))
\* the distance of anchor * power from |value|
Distance(value, anchor, power) == FAbs(FSub(FMul(anchor, power), FAbs(value)))

\* C22 as stated: for a non-zero value the result is, with the sign of value, a member
\* of {1, 2, 2.5, 5, 10} * 10^magnitude at the least distance from |value|.
C22_NearestFriendly ==
  (FriendlyReturned /\ ~IsZero(args.value)) =>
     \E a \in Anchors :
        /\ result = signedAs(args.value, FMul(a, PowerOf(args.value)))
        /\ \A b \in Anchors :
              FLe(Distance(args.value, a, PowerOf(args.value)),
                  Distance(args.value, b, PowerOf(args.value)))

\* C22 amended: for a non-zero value the result is, with the sign of value,
\* a * 10^magnitude for the smallest a of {1, 2, 2.5, 5, 10} that the normalized
\* value |value| / 10^magnitude does not exceed.
C22_SmallestFriendlyNotBelow ==
  (FriendlyReturned /\ ~IsZero(args.value)) =>
     \E a \in Anchors :
        /\ result = signedAs(args.value, FMul(a, PowerOf(args.value)))
        /\ FLe(FDiv(FAbs(args.value), PowerOf(args.value)), a)
        /\ \A b \in Anchors :
              FLe(FDiv(FAbs(args.value), PowerOf(args.value)), b) => FLe(a, b)

\* 110 is nearer to 100 and is taken to 200
C22_Witness == FriendlyReturned /\ args.value = Num(110) /\ result = Num(200)

\* C27: for a finite non-zero v the result r has the sign of v and |v| <= |r| < 2 * |v|;
\* roundToFriendlyNumber(0) = 0.
C27_NotTowardZeroNotDoubled ==
  FriendlyReturned =>
     IF IsZero(args.value) THEN result = Zero
     ELSE /\ isFinite(result) /\ result.s = args.value.s
          /\ FLe(FAbs(args.value), FAbs(result))
          /\ FLt(FAbs(result), FMul(Num(2), FAbs(args.value)))

\* ---------- claims about formatFriendlyNumber ----------
\* C20: every field of options.format reaches the formatter as given, whatever the
\* simplified options are.
C20_FormatOverrideWins ==
  (fn = "formatFriendlyNumber" /\ pc = "returned") =>
     \A f \in DOMAIN args.options.format :
        /\ Has(result.formatOptions, f)
        /\ result.formatOptions[f] = args.options.format[f]

\* the cap on fraction digits for a magnitude
AutoCap(value, compact) ==
  LET below(bound) == FLt(FAbs(value), Num(bound))
  IN IF compact
     THEN IF ~below(1000) THEN 2 ELSE IF ~below(10) THEN 1 ELSE 2
     ELSE IF ~below(100) THEN 0
          ELSE IF ~below(10) THEN 1
          ELSE IF ~below(1) THEN 2
          ELSE IF FLe(Dec(0, 1, -2), FAbs(value)) THEN 3
          ELSE 4
\* the value, or the two ends of the range, after significant-digit rounding
AfterSignificantDigits ==
  [k \in DOMAIN args.value |->
     IF Has(args.options, "significantDigits")
     THEN roundToSignificantDigits(args.value[k], args.options.significantDigits)
     ELSE args.value[k]]
\* the display option resolves to compact notation
CompactDisplay ==
  resolveDisplayOptions(args.options.display, args.options.currency, args.options.unit,
                        args.options.code, args.options.accounting,
                        args.value[1]).notation = "compact"

Calls(f) == {k \in 1..Len(history) : history[k].fn = f}
\* the calls made on the number an earlier call of f returned
CallsAfter(f, g) == {k \in Calls(g) : k > 1 /\ (k - 1) \in Calls(f)}

\* C8: countSignificantDigits(v) is 0 exactly when v is 0, NaN or infinite, and is
\* at least 1 for every other v.
C8_ZeroIffZeroOrNotFinite ==
  \A k \in Calls("countSignificantDigits") :
     /\ (history[k].result = 0) = (~isFinite(history[k].value) \/ IsZero(history[k].value))
     /\ history[k].result >= 0
     /\ (isFinite(history[k].value) /\ ~IsZero(history[k].value)) => history[k].result >= 1

C8_Witness ==
  \E k \in Calls("countSignificantDigits") :
     /\ k > 1
     /\ isFinite(history[k].value) /\ ~IsZero(history[k].value)
     /\ history[k].result = 1

\* C9: for finite v # 0 and n >= 1, countSignificantDigits(roundToSignificantDigits(v, n))
\* is at most n.
C9_RoundedHasAtMostNDigits ==
  \A k \in CallsAfter("roundToSignificantDigits", "countSignificantDigits") :
     (/\ isFinite(history[k - 1].value) /\ ~IsZero(history[k - 1].value)
      /\ history[k - 1].significantDigits >= 1) =>
        history[k].result <= history[k - 1].significantDigits

C11_SymmetricInSign ==
  \A k \in CallsAfter("roundToSignificantDigits", "roundToSignificantDigits") :
     (/\ history[k].value = FNeg(history[k - 1].value)
      /\ isFinite(history[k].value)
      /\ history[k].significantDigits >= 1) =>
        history[k].result = FNeg(history[k - 1].result)

\* C15: roundToSignificantDigits, roundToHalfSignificantDigits and toSignificantDigits
\* (in either mode) return their value unchanged when it is 0, NaN or infinite or when
\* significantDigits <= 0.
C15_GuardsReturnValue ==
  \A k \in Calls("roundToSignificantDigits") \cup Calls("roundToHalfSignificantDigits")
            \cup Calls("toSignificantDigits") :
     (\/ ~isFinite(history[k].value) \/ IsZero(history[k].value)
      \/ history[k].significantDigits <= 0) =>
        history[k].result = history[k].value

C15_Witness ==
  /\ fn = "roundToSignificantDigits" /\ pc = "returned"
  /\ isFinite(args.value) /\ ~IsZero(args.value) /\ args.significantDigits <= 0
  /\ result = args.value
  /\ roundAtScale(args.value, scaleOf(args.value, args.significantDigits)) # args.value

\* 2 * |v| / 10^q as a fraction <<numerator, denominator>> of integers
InHalfSteps(v, q) ==
  <<BigShl(BigMul(v.m, IF q < 0 THEN BigPow10(-q) ELSE <<1>>), Max2(v.e + 1, 0)),
    BigShl(IF q > 0 THEN BigPow10(q) ELSE <<1>>, Max2(-(v.e + 1), 0))>>
\* the integers nearest to the fraction with quotient and remainder qr and denominator D
NearestIntegers(qr, D) ==
  LET m == LimbsToInt(qr[1], 1)
      c == BigCmp(BigMulSmall(qr[2], 2), D)
  IN IF c < 0 THEN {m} ELSE IF c > 0 THEN {m + 1} ELSE {m, m + 1}
\* the Numbers m * 0.5 * 10^q, m an integer nearest to v / (0.5 * 10^q), where
\* q = floor(log10|v|) - n + 1
NearestHalfMultiples(v, n) ==
  LET q == ExactMagnitude(FAbs(v)) - n + 1
      fr == InHalfSteps(v, q)
  IN {Dec(v.s, 5 * m, q - 1) : m \in NearestIntegers(BigDivMod(fr[1], fr[2]), fr[2])}

\* C14: for finite v # 0 and n >= 1, roundToHalfSignificantDigits(v, n) is the
\* multiple of 0.5 * 10^(floor(log10|v|) - n + 1) nearest to v.
C14_NearestHalfMultiple ==
  \A k \in Calls("roundToHalfSignificantDigits") :
     (/\ isFinite(history[k].value) /\ ~IsZero(history[k].value)
      /\ history[k].significantDigits >= 1) =>
        history[k].result \in NearestHalfMultiples(history[k].value, history[k].significantDigits)

\* ---------- claims about scaleNumber and scaleNumberInverse ----------
Unpreserved(k) == ~history[k].options.preserveSignificantDigits
\* call k converts back what call k - 1 returned
RoundTrips ==
  {k \in CallsAfter("scaleNumber", "scaleNumberInverse") :
     /\ history[k].value = history[k - 1].result
     /\ history[k].ratio = history[k - 1].ratio
     /\ history[k].options = history[k - 1].options}
\* r is 2^j or -2^j for an integer j
IsPowerOfTwo(r) == r.k = "num" /\ r.m = One53

\* C12 as stated: with preserveSignificantDigits = false scaleNumber(v, r) is the product
\* v * r and scaleNumberInverse gives back v, for every value and ratio.
C12_InverseIsExact ==
  /\ \A k \in Calls("scaleNumber") :
        Unpreserved(k) => history[k].result = FMul(history[k].value, history[k].ratio)
  /\ \A k \in RoundTrips : Unpreserved(k) => history[k].result = history[k - 1].value

\* C12 as amended: the same, the round trip giving back v when the ratio is a power of
\* two (its inverse and both products are then exact).
C12_InverseIsExactForPowersOfTwo ==
  /\ \A k \in Calls("scaleNumber") :
        Unpreserved(k) => history[k].result = FMul(history[k].value, history[k].ratio)
  /\ \A k \in RoundTrips :
        (Unpreserved(k) /\ IsPowerOfTwo(history[k].ratio)) =>
           history[k].result = history[k - 1].value

C12_Witness ==
  \E k \in RoundTrips :
     /\ Unpreserved(k) /\ IsPowerOfTwo(history[k].ratio)
     /\ history[k].value # history[k - 1].value
     /\ history[k].result = history[k - 1].value

\* C13: with preserveSignificantDigits = true, for every finite non-zero value and
\* ratio, countSignificantDigits(scaleNumber(value, ratio, options)) is at most
\* max(minSignificantDigits, min(maxSignificantDigits, countSignificantDigits(value))).
C13_PrecisionBounded ==
  \A k \in Calls("scaleNumber") :
     (/\ history[k].options.preserveSignificantDigits
      /\ isFinite(history[k].value) /\ ~IsZero(history[k].value)
      /\ isFinite(history[k].ratio) /\ ~IsZero(history[k].ratio)) =>
        countSignificantDigits(history[k].result)
           <= targetSigDigits(countSignificantDigits(history[k].value), history[k].options)

\* C19: scaleNumberInverse(40, 16) with default options returns 2.5.
C19_InverseOfFortyBySixteen ==
  \A k \in Calls("scaleNumberInverse") :
     (/\ history[k].value = Num(40) /\ history[k].ratio = Num(16)
      /\ history[k].options = [preserveSignificantDigits |-> TRUE,
                               minSignificantDigits |-> DefaultMinSignificantDigits,
                               maxSignificantDigits |-> DefaultMaxSignificantDigits]) =>
        history[k].result = Dec(0, 25, -1)
====
